---------------------------- MODULE Spec2Model ----------------------------
(***************************************************************************)
(* AnomalyModule (anomalib/core/model/anomaly_module.py): the lifecycle    *)
(* adapter between the training framework and the results aggregator.      *)
(*                                                                         *)
(* Numbers.  Python floats (float64) are the integers 0..MaxVal; the       *)
(* values a float32 tensor can hold are the multiples of Gran.  Storing a  *)
(* Python float in torch.Tensor([x]) rounds it to the nearest multiple     *)
(* (F32); reading it back with .item() is exact.                           *)
(*                                                                         *)
(* Tensors are sequences; a batch of anomaly maps is a sequence of         *)
(* MapH x MapW matrices (sequences of rows).  A Python dict is a function  *)
(* from its keys.  Tensor entries are float32 values (torch's default      *)
(* dtype); default_threshold and the helper's results are Python floats.   *)
(*                                                                         *)
(* Bounds: floats up to MaxVal, batches of up to MaxBatch samples, epochs  *)
(* of up to MaxSteps steps, and anomaly maps of the one shape MapShape.    *)
(***************************************************************************)
EXTENDS Integers, Sequences, FiniteSets

VARIABLES
    status,             \* "none" | "ok" | "failed": outcome of __init__
    hparams,            \* the constructor arguments (save_hyperparameters)
    adaptive_threshold, \* self.adaptive_threshold
    threshold,          \* self.threshold, a float32 tensor
    results,            \* self.results, the aggregator
    last_adaptive,      \* history: tensor set by the latest adaptive validation_epoch_end
    call                \* the hook call in progress or just finished

vars == <<status, hparams, adaptive_threshold, threshold, results, last_adaptive, call>>

-----------------------------------------------------------------------------
(* Bounds of the model *)

MaxVal == 3
MaxBatch == 2
MaxSteps == 1

(* rows and columns of an anomaly map *)
MapShape == <<2, 1>>
MapH == MapShape[1]
MapW == MapShape[2]

(* float32 spacing on the float64 grid *)
Gran == 3

(* Python floats *)
Vals == 0..MaxVal

Labels == {0, 1}
Tasks == {"classification", "segmentation", "detection"}

-----------------------------------------------------------------------------
(* Tensors *)

RECURSIVE SeqMax(_)
SeqMax(s) ==
    IF Len(s) = 1 THEN s[1]
    ELSE LET m == SeqMax(Tail(s)) IN IF s[1] >= m THEN s[1] ELSE m

RECURSIVE Concat(_)
Concat(ss) == IF ss = <<>> THEN <<>> ELSE Head(ss) \o Concat(Tail(ss))

F32(x) == ((x + Gran \div 2) \div Gran) * Gran

Tensor(x) == <<F32(x)>>

item(t) == t[1]

(* the values an entry of a float32 tensor takes *)
Floats == {F32(x) : x \in Vals}

(* variant: only the first row of every map is kept *)
reshape_first_row(maps) == [i \in 1..Len(maps) |-> maps[i][1]]

(* t.reshape(t.shape[0], -1): every sample's map flattened row by row *)
reshape(maps) == [i \in 1..Len(maps) |-> Concat(maps[i])]

(* t.max(axis=1).values *)
max_axis1(rows) == [i \in 1..Len(rows) |-> SeqMax(rows[i])]

SetKey(d, k, v) == [x \in DOMAIN d \cup {k} |-> IF x = k THEN v ELSE d[x]]

-----------------------------------------------------------------------------
(* Inputs handed over by the framework and by the concrete model *)

Maps == [1..MapH -> [1..MapW -> Floats]]

BatchSizes == 1..MaxBatch

LabelOf(b) == [i \in 1..b |-> i % 2]

StepOutputsOf(b) ==
    LET base == [label |-> LabelOf(b)] IN
    {base}
    \cup {SetKey(base, "pred_scores", s) : s \in [1..b -> Floats]}
    \cup {SetKey(base, "anomaly_maps", m) : m \in [1..b -> Maps]}
    \cup {SetKey(SetKey(base, "pred_scores", s), "anomaly_maps", m) :
            s \in [1..b -> Floats], m \in [1..b -> Maps]}

StepOutputs == UNION {StepOutputsOf(b) : b \in BatchSizes}

EpochStepOutputs == [label : [1..1 -> Labels], pred_scores : [1..1 -> Floats]]

EpochOutputs == UNION {[1..n -> EpochStepOutputs] : n \in 1..MaxSteps}

-----------------------------------------------------------------------------
(* The results aggregator (anomalib.core.results): consumes the per-step   *)
(* output mappings, produces a performance-metric mapping.                 *)

NoResults == [type |-> "none", true_labels |-> <<>>, pred_scores |-> <<>>,
              performance |-> <<>>]

NewResults(type) == [NoResults EXCEPT !.type = type]

store_outputs(res, outputs) ==
    [res EXCEPT !.true_labels = Concat([i \in 1..Len(outputs) |-> outputs[i].label]),
                !.pred_scores = Concat([i \in 1..Len(outputs) |-> outputs[i].pred_scores])]

MetricNames(type) ==
    IF type = "SegmentationResults" THEN <<"image_f1_score", "pixel_f1_score">>
    ELSE <<"image_f1_score">>

(* a metric that depends on the threshold it is evaluated at: the number   *)
(* of stored samples whose thresholded score agrees with the true label    *)
Agreement(res, thr) ==
    Cardinality({i \in 1..Len(res.pred_scores) :
                    (res.pred_scores[i] >= thr) <=> (res.true_labels[i] = 1)})

evaluate(res, thr) ==
    [res EXCEPT !.performance =
        [i \in 1..Len(MetricNames(res.type)) |->
            [name |-> MetricNames(res.type)[i], value |-> Agreement(res, thr)]]]

(* anomalib.utils.metrics.compute_threshold_and_f1_score: the (threshold,  *)
(* F1) pairs it may return for the given labels and scores                 *)
compute_threshold_and_f1_score(true_labels, pred_scores) == Vals \X {0, 1}

-----------------------------------------------------------------------------
(* AnomalyModule *)

Event(name, arg) == [ev |-> name, arg |-> arg]

(* a hook call: its argument, what it returned or raised, the calls it made *)
(* on its collaborators in order, and the threshold it found on entry       *)
NoCall == [hook |-> "idle", arg |-> <<>>, ret |-> <<>>, raised |-> "", trace |-> <<>>,
           before |-> <<>>]

Call(hook, arg, ret, raised, trace) ==
    [hook |-> hook, arg |-> arg, ret |-> ret, raised |-> raised, trace |-> trace,
     before |-> threshold]

(* variant: an unknown task falls back to classification *)
SelectResultsFallback(task) ==
    IF task = "segmentation" THEN [raised |-> "", type |-> "SegmentationResults"]
    ELSE [raised |-> "", type |-> "ClassificationResults"]

(* variant: both supported tasks get the classification aggregator *)
SelectResultsSameType(task) ==
    IF task \in {"classification", "segmentation"}
    THEN [raised |-> "", type |-> "ClassificationResults"]
    ELSE [raised |-> "NotImplementedError", type |-> "none"]

(* __init__, lines 52-57: the aggregator for the task, or the error *)
SelectResults(task) ==
    IF task = "classification" THEN [raised |-> "", type |-> "ClassificationResults"]
    ELSE IF task = "segmentation" THEN [raised |-> "", type |-> "SegmentationResults"]
    ELSE [raised |-> "NotImplementedError", type |-> "none"]

(* __init__, line 46: register_buffer("threshold", torch.Tensor([default_threshold])) *)
InitThreshold(default_threshold) == Tensor(default_threshold)

Init ==
    /\ status = "none"
    /\ hparams = <<>>
    /\ adaptive_threshold = FALSE
    /\ threshold = <<>>
    /\ results = NoResults
    /\ last_adaptive = <<>>
    /\ call = NoCall

__init__ ==
    /\ status = "none"
    /\ \E task \in Tasks, adaptive \in BOOLEAN, default_threshold \in Vals :
        LET sel == SelectResults(task)
            args == [task |-> task, adaptive_threshold |-> adaptive,
                     default_threshold |-> default_threshold]
        IN  /\ hparams' = args
            /\ adaptive_threshold' = adaptive
            /\ threshold' = InitThreshold(default_threshold)
            /\ results' = IF sel.raised = "" THEN NewResults(sel.type) ELSE NoResults
            /\ status' = IF sel.raised = "" THEN "ok" ELSE "failed"
            /\ call' = Call("__init__", args, <<>>, sel.raised, <<>>)
    /\ UNCHANGED last_adaptive

(* a hook is entered only on a constructed module, after the previous hook returned *)
Ready == status = "ok" /\ call = NoCall

(* the framework takes the hook's return value; the next hook may be called *)
hook_return ==
    /\ status = "ok"
    /\ call # NoCall
    /\ call' = NoCall
    /\ UNCHANGED <<status, hparams, adaptive_threshold, threshold, results, last_adaptive>>

(* variant: the scores are derived from the maps whenever maps are present *)
DeriveScoresOverwrite(outputs) ==
    IF "anomaly_maps" \in DOMAIN outputs
    THEN SetKey(outputs, "pred_scores", max_axis1(reshape(outputs["anomaly_maps"])))
    ELSE outputs

(* _post_process, lines 132-135 *)
DeriveScores(outputs) ==
    IF "pred_scores" \notin DOMAIN outputs /\ "anomaly_maps" \in DOMAIN outputs
    THEN SetKey(outputs, "pred_scores", max_axis1(reshape(outputs["anomaly_maps"])))
    ELSE outputs

(* variant: strict comparison *)
PredictLabelsStrict(pred_scores, thr) == [i \in 1..Len(pred_scores) |-> pred_scores[i] > thr]

(* _post_process, line 137: outputs["pred_scores"] >= self.threshold.item() *)
PredictLabels(pred_scores, thr) == [i \in 1..Len(pred_scores) |-> pred_scores[i] >= thr]

(* variant: labels are predicted only when scores are there *)
_post_process_lenient(outputs, predict_labels) ==
    LET scored == DeriveScores(outputs) IN
    IF ~predict_labels \/ "pred_scores" \notin DOMAIN scored
    THEN [raised |-> "", ret |-> scored]
    ELSE [raised |-> "",
          ret |-> SetKey(scored, "pred_labels",
                         PredictLabels(scored["pred_scores"], item(threshold)))]

_post_process(outputs, predict_labels) ==
    LET scored == DeriveScores(outputs) IN
    IF ~predict_labels THEN [raised |-> "", ret |-> scored]
    ELSE IF "pred_scores" \notin DOMAIN scored THEN [raised |-> "KeyError", ret |-> <<>>]
    ELSE [raised |-> "",
          ret |-> SetKey(scored, "pred_labels",
                         PredictLabels(scored["pred_scores"], item(threshold)))]

ModuleUnchanged == UNCHANGED <<status, hparams, adaptive_threshold, threshold, results, last_adaptive>>

(* forward: whatever the wrapped model returns for the batch *)
forward ==
    /\ Ready
    /\ \E y \in [1..1 -> Floats] : call' = Call("forward", <<>>, y, "", <<>>)
    /\ ModuleUnchanged

(* predict_step: arg is what the subclass's validation_step returned for the batch *)
predict_step ==
    /\ Ready
    /\ \E out \in StepOutputs :
        LET r == _post_process(out, TRUE) IN
        call' = Call("predict_step", out, r.ret, r.raised, <<>>)
    /\ ModuleUnchanged

test_step ==
    /\ Ready
    /\ \E out \in StepOutputs : call' = Call("test_step", out, out, "", <<>>)
    /\ ModuleUnchanged

validation_step_end ==
    /\ Ready
    /\ \E val_step_outputs \in StepOutputs :
        LET r == _post_process(val_step_outputs, FALSE) IN
        call' = Call("validation_step_end", val_step_outputs, r.ret, r.raised, <<>>)
    /\ ModuleUnchanged

test_step_end ==
    /\ Ready
    /\ \E test_step_outputs \in StepOutputs :
        LET r == _post_process(test_step_outputs, FALSE) IN
        call' = Call("test_step_end", test_step_outputs, r.ret, r.raised, <<>>)
    /\ ModuleUnchanged

(* _log_metrics: one self.log per item of results.performance *)
_log_metrics(res) ==
    [i \in 1..Len(res.performance) |-> Event("log", res.performance[i])]

(* validation_epoch_end, lines 113-118, with `helper` the pair the         *)
(* threshold helper returns when it is called                              *)
(* variant: the threshold is recomputed whatever the flag says *)
UpdatedThresholdAlways(helper) == Tensor(helper[1])

(* variant: the two values the helper returns are taken in the wrong order *)
UpdatedThresholdF1(helper) ==
    IF adaptive_threshold THEN Tensor(helper[2]) ELSE threshold

(* validation_epoch_end, lines 114-116 *)
UpdatedThreshold(helper) ==
    IF adaptive_threshold THEN Tensor(helper[1]) ELSE threshold

(* variant: evaluate runs before the threshold is recomputed *)
ValidationEpochEndStale(outputs, helper) ==
    LET stored == store_outputs(results, outputs)
        evaluated == evaluate(stored, item(threshold))
        thr == UpdatedThreshold(helper)
    IN  [threshold |-> thr,
         results |-> evaluated,
         trace |-> <<Event("store_outputs", outputs),
                     Event("evaluate", item(threshold))>>
                   \o (IF adaptive_threshold
                       THEN <<Event("compute_threshold_and_f1_score",
                                    [args |-> <<stored.true_labels, stored.pred_scores>>,
                                     ret |-> helper]),
                              Event("set_threshold", thr)>>
                       ELSE <<>>)
                   \o _log_metrics(evaluated)]

ValidationEpochEnd(outputs, helper) ==
    LET stored == store_outputs(results, outputs)
        thr == UpdatedThreshold(helper)
        evaluated == evaluate(stored, item(thr))
    IN  [threshold |-> thr,
         results |-> evaluated,
         trace |-> <<Event("store_outputs", outputs)>>
                   \o (IF adaptive_threshold
                       THEN <<Event("compute_threshold_and_f1_score",
                                    [args |-> <<stored.true_labels, stored.pred_scores>>,
                                     ret |-> helper]),
                              Event("set_threshold", thr)>>
                       ELSE <<>>)
                   \o <<Event("evaluate", item(thr))>>
                   \o _log_metrics(evaluated)]

validation_epoch_end ==
    /\ Ready
    /\ \E outputs \in EpochOutputs :
        \E helper \in compute_threshold_and_f1_score(
                        store_outputs(results, outputs).true_labels,
                        store_outputs(results, outputs).pred_scores) :
            LET r == ValidationEpochEnd(outputs, helper) IN
            /\ threshold' = r.threshold
            /\ results' = r.results
            /\ last_adaptive' = IF adaptive_threshold THEN r.threshold ELSE last_adaptive
            /\ call' = Call("validation_epoch_end", outputs, <<>>, "", r.trace)
    /\ UNCHANGED <<status, hparams, adaptive_threshold>>

(* variant: test_epoch_end recomputes the threshold as validation_epoch_end does *)
TestEpochEndAdaptive(outputs) ==
    LET stored == store_outputs(results, outputs)
        thr == IF adaptive_threshold THEN Tensor(SeqMax(stored.pred_scores)) ELSE threshold
        evaluated == evaluate(stored, item(thr))
    IN  [threshold |-> thr,
         results |-> evaluated,
         trace |-> <<Event("store_outputs", outputs), Event("evaluate", item(thr))>>
                   \o _log_metrics(evaluated)]

(* test_epoch_end, lines 126-128 *)
TestEpochEnd(outputs) ==
    LET stored == store_outputs(results, outputs)
        evaluated == evaluate(stored, item(threshold))
    IN  [threshold |-> threshold,
         results |-> evaluated,
         trace |-> <<Event("store_outputs", outputs), Event("evaluate", item(threshold))>>
                   \o _log_metrics(evaluated)]

test_epoch_end ==
    /\ Ready
    /\ \E outputs \in EpochOutputs :
        LET r == TestEpochEnd(outputs) IN
        /\ threshold' = r.threshold
        /\ results' = r.results
        /\ call' = Call("test_epoch_end", outputs, <<>>, "", r.trace)
    /\ UNCHANGED <<status, hparams, adaptive_threshold, last_adaptive>>

Next ==
    \/ __init__
    \/ hook_return
    \/ forward
    \/ predict_step
    \/ test_step
    \/ validation_step_end
    \/ test_step_end
    \/ validation_epoch_end
    \/ test_epoch_end

Spec == Init /\ [][Next]_vars

-----------------------------------------------------------------------------
(* Vocabulary of the properties *)

Abs(x) == IF x < 0 THEN -x ELSE x

(* v is the float32 value nearest to the Python float x *)
NearestFloat(v, x) == v % Gran = 0 /\ 2 * Abs(v - x) <= Gran

(* t is a one-element float32 tensor holding x rounded to single precision *)
HoldsRounded(t, x) == Len(t) = 1 /\ NearestFloat(item(t), x)

ExpectedType ==
    IF hparams.task = "classification" THEN "ClassificationResults"
    ELSE "SegmentationResults"

Entries(m) == UNION {{m[r][c] : c \in DOMAIN m[r]} : r \in DOMAIN m}

IsMaxOf(v, S) == v \in S /\ \A x \in S : x <= v

StepEndHooks == {"validation_step_end", "test_step_end"}

PostProcessHooks == StepEndHooks \cup {"predict_step"}

EpochEndHooks == {"validation_epoch_end", "test_epoch_end"}

LacksBoth(o) == "pred_scores" \notin DOMAIN o /\ "anomaly_maps" \notin DOMAIN o

Adaptive(c) == c.hook = "validation_epoch_end" /\ adaptive_threshold

IsEvent(e, name, arg) == e.ev = name /\ e.arg = arg

-----------------------------------------------------------------------------
(* C1: constructing with a task string other than "classification" or      *)
(* "segmentation" fails with NotImplementedError at construction, whatever *)
(* adaptive_threshold and default_threshold are: the module gets no        *)
(* aggregator and no hook is ever called on it.                            *)
C1_UnsupportedTaskFails ==
    (status # "none" /\ hparams.task \notin {"classification", "segmentation"}) =>
        /\ status = "failed"
        /\ call.hook = "__init__"
        /\ call.raised = "NotImplementedError"
        /\ results = NoResults

C1_Witness ==
    /\ status = "failed"
    /\ hparams.task = "detection"
    /\ hparams.adaptive_threshold
    /\ hparams.default_threshold = MaxVal

(* C2 as stated: the aggregator has the task's type in every state of a    *)
(* constructed module; right after construction the threshold equals       *)
(* default_threshold and the flag equals the adaptive_threshold argument.  *)
C2_Original ==
    status = "ok" =>
        /\ results.type = ExpectedType
        /\ call.hook = "__init__" =>
            /\ item(threshold) = hparams.default_threshold
            /\ adaptive_threshold = hparams.adaptive_threshold

(* C2 amended: as stated, but the threshold is a one-element float32       *)
(* tensor, so it equals default_threshold rounded to single precision.     *)
C2_Amended ==
    status = "ok" =>
        /\ results.type = ExpectedType
        /\ call.hook = "__init__" =>
            /\ HoldsRounded(threshold, hparams.default_threshold)
            /\ adaptive_threshold = hparams.adaptive_threshold

C2_Witness ==
    /\ status = "ok"
    /\ call.hook = "__init__"
    /\ hparams.task = "segmentation"
    /\ results.type = "SegmentationResults"
    /\ hparams.default_threshold % Gran # 0

(* C3 as stated: with adaptive mode off, validation_epoch_end leaves the   *)
(* threshold as it found it, and in every state the threshold equals       *)
(* default_threshold.                                                      *)
C3_Original ==
    (status = "ok" /\ ~adaptive_threshold) =>
        /\ call.hook = "validation_epoch_end" => threshold = call.before
        /\ item(threshold) = hparams.default_threshold

(* C3 amended: with adaptive mode off, validation_epoch_end leaves the     *)
(* threshold as it found it, and in every state the threshold is the value *)
(* stored at construction: default_threshold rounded to single precision.  *)
C3_Amended ==
    (status = "ok" /\ ~adaptive_threshold) =>
        /\ call.hook = "validation_epoch_end" => threshold = call.before
        /\ HoldsRounded(threshold, hparams.default_threshold)

C3_Witness ==
    /\ status = "ok"
    /\ ~adaptive_threshold
    /\ call.hook = "validation_epoch_end"
    /\ hparams.default_threshold % Gran # 0
    /\ results.pred_scores # <<>>
    /\ results.pred_scores[1] # item(threshold)

(* C4 as stated: with adaptive mode on, validation_epoch_end calls the     *)
(* helper with the aggregator's labels and scores as stored by this call   *)
(* and leaves the threshold equal to the threshold value it returned.      *)
C4_Original ==
    (status = "ok" /\ Adaptive(call)) =>
        LET h == call.trace[2] IN
        /\ h.ev = "compute_threshold_and_f1_score"
        /\ h.arg.args = <<results.true_labels, results.pred_scores>>
        /\ item(threshold) = h.arg.ret[1]

(* C4 amended: as stated, but the returned value is stored in a            *)
(* one-element float32 tensor: the threshold is the returned threshold     *)
(* rounded to single precision (the F1 score plays no part).               *)
C4_Amended ==
    (status = "ok" /\ Adaptive(call)) =>
        LET h == call.trace[2] IN
        /\ h.ev = "compute_threshold_and_f1_score"
        /\ h.arg.args = <<results.true_labels, results.pred_scores>>
        /\ HoldsRounded(threshold, h.arg.ret[1])

C4_Witness ==
    /\ status = "ok"
    /\ Adaptive(call)
    /\ call.trace[2].arg.ret = <<MaxVal - 1, 0>>
    /\ threshold # call.before
    /\ results.pred_scores # <<>>

(* C5: post-processing outputs that have anomaly maps and no scores adds   *)
(* one score per sample, the maximum over all entries of the sample's map, *)
(* and leaves the maps and every other key as they were.                   *)
C5_ScoresFromMaps ==
    (call.hook \in PostProcessHooks
        /\ "pred_scores" \notin DOMAIN call.arg
        /\ "anomaly_maps" \in DOMAIN call.arg) =>
        /\ call.raised = ""
        /\ "pred_scores" \in DOMAIN call.ret
        /\ Len(call.ret.pred_scores) = Len(call.arg.anomaly_maps)
        /\ \A i \in 1..Len(call.arg.anomaly_maps) :
            IsMaxOf(call.ret.pred_scores[i], Entries(call.arg.anomaly_maps[i]))
        /\ \A k \in DOMAIN call.arg : call.ret[k] = call.arg[k]
        /\ DOMAIN call.ret \ DOMAIN call.arg \subseteq {"pred_scores", "pred_labels"}

C5_Witness ==
    /\ call.hook = "validation_step_end"
    /\ "pred_scores" \notin DOMAIN call.arg
    /\ "anomaly_maps" \in DOMAIN call.arg
    /\ Len(call.arg.anomaly_maps) = 2
    /\ call.arg.anomaly_maps[1][1][1] < call.arg.anomaly_maps[1][MapH][MapW]
    /\ call.ret.pred_scores[1] > call.ret.pred_scores[2]

(* the threshold C6 names: the one set by the latest adaptive              *)
(* validation_epoch_end, or else the constructor's argument                *)
NamedThreshold ==
    IF last_adaptive # <<>> THEN item(last_adaptive) ELSE hparams.default_threshold

(* C6 as stated: predict_step labels sample i anomalous exactly when its   *)
(* score is >= the value set by the latest adaptive validation_epoch_end,  *)
(* or >= default_threshold if there was none.                              *)
C6_Original ==
    (call.hook = "predict_step" /\ call.raised = "") =>
        /\ DOMAIN call.ret.pred_labels = DOMAIN call.ret.pred_scores
        /\ \A i \in DOMAIN call.ret.pred_scores :
            call.ret.pred_labels[i] <=> (call.ret.pred_scores[i] >= NamedThreshold)

(* C6 amended: predict_step labels sample i anomalous exactly when its     *)
(* score is >= the module's threshold at the time of the call, which is    *)
(* the value set by the latest adaptive validation_epoch_end, or           *)
(* default_threshold rounded to single precision if there was none.        *)
C6_Amended ==
    (call.hook = "predict_step" /\ call.raised = "") =>
        /\ DOMAIN call.ret.pred_labels = DOMAIN call.ret.pred_scores
        /\ \A i \in DOMAIN call.ret.pred_scores :
            call.ret.pred_labels[i] <=> (call.ret.pred_scores[i] >= item(call.before))
        /\ IF last_adaptive # <<>> THEN call.before = last_adaptive
           ELSE HoldsRounded(call.before, hparams.default_threshold)

C6_Witness ==
    /\ call.hook = "predict_step"
    /\ call.raised = ""
    /\ last_adaptive # <<>>
    /\ Len(call.ret.pred_scores) = 2
    /\ call.ret.pred_scores[1] = item(threshold)
    /\ call.ret.pred_labels[1]
    /\ ~call.ret.pred_labels[2]

(* C7: the threshold of a constructed module is always a single scalar; a  *)
(* step changes it only if the step is validation_epoch_end with adaptive  *)
(* mode on, which sets it exactly once; every other hook sets it never.    *)
C7_ThresholdUpdates ==
    /\ [](status = "ok" =>
            /\ Len(threshold) = 1
            /\ call.hook \notin {"idle", "__init__"} =>
                Cardinality({j \in DOMAIN call.trace : call.trace[j].ev = "set_threshold"})
                    = IF Adaptive(call) THEN 1 ELSE 0)
    /\ [][(status = "ok" /\ threshold' # threshold) =>
            (call'.hook = "validation_epoch_end" /\ adaptive_threshold)]_vars

C7_Witness ==
    /\ status = "ok"
    /\ adaptive_threshold
    /\ call.hook = "test_epoch_end"
    /\ last_adaptive # <<>>
    /\ threshold = last_adaptive
    /\ ~NearestFloat(item(threshold), hparams.default_threshold)
    /\ results.pred_scores[1] # item(threshold)

(* C8: predict_step on outputs with neither scores nor maps raises         *)
(* KeyError, returns no mapping and changes neither the threshold nor the  *)
(* aggregator; the step-end hooks return such outputs unchanged; the only  *)
(* error the module raises itself is the constructor's.                    *)
C8_MissingScores ==
    /\ [](/\ call.raised = "NotImplementedError" => call.hook = "__init__"
          /\ call.raised = "KeyError" => call.hook = "predict_step"
          /\ (call.hook = "predict_step" /\ LacksBoth(call.arg)) =>
                /\ call.raised = "KeyError"
                /\ "pred_labels" \notin DOMAIN call.ret
          /\ (call.hook \in StepEndHooks /\ LacksBoth(call.arg)) =>
                /\ call.raised = ""
                /\ call.ret = call.arg)
    /\ [][call'.hook = "predict_step" => (threshold' = threshold /\ results' = results)]_vars

C8_Witness ==
    /\ call.hook = "predict_step"
    /\ LacksBoth(call.arg)
    /\ call.raised = "KeyError"
    /\ results.pred_scores # <<>>

(* C9: an epoch-end hook stores the outputs, then (validation, adaptive    *)
(* mode on) recomputes the threshold, then evaluates at the threshold the  *)
(* module holds after that, then logs every entry of results.performance   *)
(* once; test_epoch_end evaluates at the threshold it found.               *)
C9_EpochEndOrder ==
    (status = "ok" /\ call.hook \in EpochEndHooks) =>
        LET t == call.trace
            k == IF Adaptive(call) THEN 3 ELSE 1
            perf == results.performance
        IN  /\ Len(t) = k + 1 + Len(perf)
            /\ IsEvent(t[1], "store_outputs", call.arg)
            /\ Adaptive(call) =>
                /\ t[2].ev = "compute_threshold_and_f1_score"
                /\ IsEvent(t[3], "set_threshold", threshold)
            /\ IsEvent(t[k + 1], "evaluate", item(threshold))
            /\ call.hook = "test_epoch_end" => threshold = call.before
            /\ \A i \in 1..Len(perf) :
                /\ IsEvent(t[k + 1 + i], "log", perf[i])
                /\ Cardinality({j \in DOMAIN t : IsEvent(t[j], "log", perf[i])}) = 1
                /\ perf[i].value = Agreement(results, item(threshold))

C9_Witness ==
    /\ status = "ok"
    /\ Adaptive(call)
    /\ threshold # call.before
    /\ Len(results.performance) = 2
    /\ Agreement(results, item(threshold)) # Agreement(results, item(call.before))

(* C10: post-processing keeps scores that are already there, also when the *)
(* maps' maxima differ from them; the step-end hooks add no "pred_labels"  *)
(* key and predict_step does; post-processing what a hook returned gives   *)
(* the same mapping again.                                                 *)
C10_ScoresKept ==
    (call.hook \in PostProcessHooks /\ call.raised = "") =>
        /\ "pred_scores" \in DOMAIN call.arg =>
            /\ call.ret.pred_scores = call.arg.pred_scores
            /\ DOMAIN call.ret \ DOMAIN call.arg \subseteq {"pred_labels"}
        /\ call.hook \in StepEndHooks => "pred_labels" \notin DOMAIN call.ret
        /\ call.hook = "predict_step" => "pred_labels" \in DOMAIN call.ret
        /\ _post_process(call.ret, call.hook = "predict_step")
            = [raised |-> "", ret |-> call.ret]

C10_Witness ==
    /\ call.hook = "validation_step_end"
    /\ "pred_scores" \in DOMAIN call.arg
    /\ "anomaly_maps" \in DOMAIN call.arg
    /\ Len(call.arg.pred_scores) = 2
    /\ call.arg.pred_scores[1] < call.arg.anomaly_maps[1][1][1]
    /\ call.arg.pred_scores[2] > call.arg.anomaly_maps[2][MapH][MapW]

=============================================================================
